---- MODULE Spec2Model ----
(***************************************************************************)
(* The QR-donation lifecycle of the donation-tracker API: anonymous        *)
(* requests (AnonymousLocation), donators on the way (DonatorOnTheWay),    *)
(* position samples (LocationUpdate), the donation ledger                  *)
(* (DonationHistory) and its ratings (DonationRating).                     *)
(*                                                                         *)
(* Every HTTP handler runs in its own worker.  The database is in          *)
(* autocommit mode: each ORM statement is one atomic step, and only the    *)
(* statements inside a transaction.atomic() block commit together.  A      *)
(* handler is therefore a sequence of steps; the model object a handler    *)
(* holds between two steps is a private copy of the row it read            *)
(* (calls[w].snap), and Model.save() writes every field of that copy.      *)
(* The clock counts ticks of half a second.                                 *)
(***************************************************************************)
EXTENDS Integers, Sequences, FiniteSets, TLC

VARIABLES
    now,                 \* timezone.now(), in ticks
    anonymousLocations,  \* rows of AnonymousLocation
    donatorsOnTheWay,    \* rows of DonatorOnTheWay
    locationUpdates,     \* rows of LocationUpdate, in insertion order
    donationHistory,     \* rows of DonationHistory
    donationRatings,     \* rows of DonationRating, in insertion order
    nextLocationId,      \* AutoField sequences
    nextTrackId,
    nextHistoryId,
    calls,               \* per worker: the handler in flight
    response,            \* the last response sent to a client
    groups,              \* channel layer: the channels of each group
    inboxes,             \* channel layer: the queued messages of each channel
    sockets,             \* per channel: its consumer and the frames it sent
    users                \* rows of User

vars == <<now, anonymousLocations, donatorsOnTheWay, locationUpdates,
          donationHistory, donationRatings, nextLocationId, nextTrackId,
          nextHistoryId, calls, response, groups, inboxes, sockets, users>>

----------------------------------------------------------------------------
(* Bounds of the model *)

MaxLocations == 1
NumOpen == 1
MaxTrackRows == 2
MaxUpdates == 1
MaxHistory == 2
MaxTime == 1
MaxWait == 3
MaxSockets == 2
MaxEvents == 2

(* Program constants *)

CooldownHours == 3
FreshnessHours == 24
SecondsPerHour == 3600

\* The resolution of the clock: ticks per second.
TicksPerSecond == 2

Hour == SecondsPerHour * TicksPerSecond

\* int(timedelta.total_seconds()) of a duration in ticks: truncation
\* towards zero.
Seconds(d) ==
    IF d >= 0 THEN d \div TicksPerSecond ELSE 0 - ((0 - d) \div TicksPerSecond)

NoTime == 0 - 1
NoUser == "nobody"
NoQr == <<>>
NoRow == [id |-> 0]

Workers == {"w1", "w2"}
Users == {"d1", "d2"}

\* Session tokens are opaque strings.
Session(i) == <<"session", i>>

Sessions == {Session(1), Session(2)}

\* Two requester profiles that differ in every copied field.
Profiles ==
    { [first_name |-> "Ana", phone |-> "09170000001", geo |-> <<14, 121>>,
       supply_needs |-> [water |-> 5, food |-> 3]],
      [first_name |-> "Ben", phone |-> "09170000002", geo |-> <<10, 123>>,
       supply_needs |-> [water |-> 1]] }

\* The lifecycle fields are writable serializer fields: a payload may carry them.
Flag == {"absent", "true", "false"}

SubmitPayloads ==
    { [session_id |-> s, profile |-> p, donation_received |-> f]
        : s \in Sessions, p \in Profiles, f \in Flag }

----------------------------------------------------------------------------
(* Rows and queries *)

Upsert(table, row) == {r \in table : r.id # row.id} \cup {row}

\* uuid4-based code of the request created with the given id; uuid4 values
\* are taken to be fresh.
QrCode(id) == <<"LOC", id>>

IdleCall ==
    [op |-> "none", pc |-> "idle", loc |-> 0, user |-> NoUser, qr |-> NoQr,
     hist |-> 0, data |-> NoRow, snap |-> NoRow, result |-> "none",
     pre |-> FALSE]

Free(w) == calls[w].pc = "idle"

Pending(pc) == Cardinality({w \in Workers : calls[w].pc = pc})

\* The handler of worker w goes on with its next statement.
Continue(w, c) ==
    /\ calls' = [calls EXCEPT ![w] = c]
    /\ response' = response

\* The handler of worker w returns its response.
Finish(w, c, res) ==
    /\ calls' = [calls EXCEPT ![w] = IdleCall]
    /\ response' = [op |-> c.op, result |-> res, pre |-> c.pre, remaining |-> 0,
                    listed |-> <<>>, user |-> NoUser]

----------------------------------------------------------------------------
(* Accounts: register, register_affected, login *)

\* The accounts of the model: the two donators, one more person who may
\* register, and one affected user who registers by phone.
Addresses ==
    [d1 |-> "d1@relief.org", d2 |-> "d2@relief.org", u3 |-> "u3@relief.org",
     a1 |-> "09170000003@affected.local"]

Secrets == [d1 |-> "pw-d1", d2 |-> "pw-d2", u3 |-> "pw-u3"]

ROLE_CHOICES == {"donator", "affected", "admin"}

\* set_password stores a hash of the raw password.
Hash(raw) == <<"pbkdf2_sha256", raw>>

\* set_unusable_password
Unusable == <<"!">>

\* A check that accepts every password.
CheckAnyPassword(raw, stored) == TRUE

\* check_password
CheckPassword(raw, stored) == stored = Hash(raw)

\* User.objects.create_user(email, password, role=...)
CreateUser(u, raw, role) ==
    [id |-> u, email |-> Addresses[u], password |-> Hash(raw), role |-> role,
     is_active |-> TRUE]

\* A donator who registered before.
Donator(u) == CreateUser(u, Secrets[u], "donator")

\* The response of the account handlers.
Answer(op, res, u) ==
    response' = [op |-> op, result |-> res, pre |-> FALSE, remaining |-> 0,
                 listed |-> <<>>, user |-> u]

\* register: the serializer refuses an email that is taken.
Register(u, role) ==
    /\ IF \E r \in users : r.email = Addresses[u]
       THEN /\ users' = users
            /\ Answer("register", "Invalid", NoUser)
       ELSE /\ users' = users \cup {CreateUser(u, Secrets[u], role)}
            /\ Answer("register", "Tokens", u)
    /\ UNCHANGED <<now, anonymousLocations, donatorsOnTheWay, locationUpdates,
                   donationHistory, donationRatings, nextLocationId,
                   nextTrackId, nextHistoryId, calls>>
    /\ UNCHANGED <<groups, inboxes, sockets>>

\* register_affected: a user of role affected with no usable password.
RegisterAffected(u) ==
    /\ IF \E r \in users : r.email = Addresses[u]
       THEN /\ users' = users
            /\ Answer("register_affected", "Invalid", NoUser)
       ELSE /\ users' = users \cup
                   {[CreateUser(u, "", "affected") EXCEPT !.password = Unusable]}
            /\ Answer("register_affected", "Tokens", u)
    /\ UNCHANGED <<now, anonymousLocations, donatorsOnTheWay, locationUpdates,
                   donationHistory, donationRatings, nextLocationId,
                   nextTrackId, nextHistoryId, calls>>
    /\ UNCHANGED <<groups, inboxes, sockets>>

\* UserAdmin: an administrator clears is_active of an account.
Suspend(u) ==
    /\ \E r \in users : r.id = u /\ r.is_active
    /\ users' = {IF r.id = u THEN [r EXCEPT !.is_active = FALSE] ELSE r : r \in users}
    /\ UNCHANGED <<now, anonymousLocations, donatorsOnTheWay, locationUpdates,
                   donationHistory, donationRatings, nextLocationId,
                   nextTrackId, nextHistoryId, calls, response>>
    /\ UNCHANGED <<groups, inboxes, sockets>>

\* login, up to authenticate: both fields have to be given.
LoginStart(w, email, raw) ==
    /\ calls[w].pc = "idle"
    /\ LET c == [IdleCall EXCEPT !.op = "login", !.pc = "login",
                                 !.data = [email |-> email, password |-> raw]]
       IN IF email = "" \/ raw = ""
          THEN /\ calls' = calls
               /\ Answer("login", "Invalid", NoUser)
          ELSE /\ calls' = [calls EXCEPT ![w] = c]
               /\ response' = response
    /\ UNCHANGED <<now, anonymousLocations, donatorsOnTheWay, locationUpdates,
                   donationHistory, donationRatings, nextLocationId,
                   nextTrackId, nextHistoryId>>
    /\ UNCHANGED <<groups, inboxes, sockets, users>>

\* authenticate(request, username=email, password=password): the user of
\* that email, when the password checks and the account is active; then
\* the tokens or the 401.
Login(w) ==
    /\ calls[w].pc = "login"
    /\ LET d == calls[w].data
           found == {r \in users :
                        /\ r.email = d.email
                        /\ CheckPassword(d.password, r.password)
                        /\ r.is_active}
       IN IF found = {}
          THEN Answer("login", "Unauthorized", NoUser)
          ELSE \E r \in found : Answer("login", "Tokens", r.id)
    /\ calls' = [calls EXCEPT ![w] = IdleCall]
    /\ UNCHANGED <<now, anonymousLocations, donatorsOnTheWay, locationUpdates,
                   donationHistory, donationRatings, nextLocationId,
                   nextTrackId, nextHistoryId>>
    /\ UNCHANGED <<groups, inboxes, sockets, users>>

----------------------------------------------------------------------------
(* The channel layer and the WebSocket consumers *)

\* room_group_name of LocationConsumer and of DonationConsumer.
GroupNames == {"locations", "donations"}

\* channel_name of a connection: every connection gets a name of its own.
ChannelNames == {<<"ws", i>> : i \in 1..MaxSockets}

NewSocket == [state |-> "new", path |-> "none", frames |-> <<>>]

\* The message a consumer or a handler hands to group_send.
Event(type, status, id, u, session_id, q, data) ==
    [type |-> type, status |-> status, location |-> id, donator |-> u,
     session_id |-> session_id, qr_code |-> q, data |-> data]

\* tracking_data of mark_on_the_way, location_update and stop_tracking; the
\* data of a position has coordinates in place of a status.
TrackingUpdate(status, id, u) ==
    Event("donator_tracking_update", status, id, u, <<>>, NoQr, 0)

\* The data of scan_qr_code's notification.
QrScanNotification(l, u, q) ==
    Event("qr_scan_notification", "scanned", l.id, u, l.session_id, q, 0)

\* The text a client sends over its socket.
ClientData == {1, 2}

\* The type of the event receive() publishes to the group of the consumer.
UpdateType(g) == IF g = "locations" THEN "location_update" ELSE "donation_update"

\* The message types a consumer of the group has a handler for.
Handled(g) ==
    IF g = "locations"
    THEN {"location_update", "qr_scan_notification", "donator_tracking_update"}
    ELSE {"donation_update"}

\* The publishes explored: every member's queue and frames stay within
\* MaxEvents messages.
Room(g) ==
    \A ch \in groups[g] :
        Len(inboxes[ch]) + Len(sockets[ch].frames) < MaxEvents

\* channel_layer.group_send: a copy of the event in the queue of every
\* channel that is in the group now.
GroupSend(g, e) ==
    inboxes' = [ch \in ChannelNames |->
                   IF ch \in groups[g] THEN Append(inboxes[ch], e)
                   ELSE inboxes[ch]]

\* A discard that leaves the channel in the group.
GroupKeep(g, ch) == groups' = groups

\* channel_layer.group_discard
GroupDiscard(g, ch) == groups' = [groups EXCEPT ![g] = @ \ {ch}]

\* channel_layer.group_add
GroupAdd(g, ch) == groups' = [groups EXCEPT ![g] = @ \cup {ch}]

Database ==
    <<now, anonymousLocations, donatorsOnTheWay, locationUpdates,
      donationHistory, donationRatings, nextLocationId, nextTrackId,
      nextHistoryId, calls, response, users>>

\* connect, up to its accept: the channel joins the group of its consumer.
Connect(ch, g) ==
    /\ sockets[ch].state = "new"
    /\ GroupAdd(g, ch)
    /\ sockets' = [sockets EXCEPT ![ch] = [@ EXCEPT !.state = "joined", !.path = g]]
    /\ UNCHANGED inboxes
    /\ UNCHANGED Database

\* self.accept()
Accept(ch) ==
    /\ sockets[ch].state = "joined"
    /\ sockets' = [sockets EXCEPT ![ch].state = "open"]
    /\ UNCHANGED <<groups, inboxes>>
    /\ UNCHANGED Database

\* disconnect: the channel leaves the group and the consumer stops.
Disconnect(ch) ==
    /\ sockets[ch].state = "open"
    /\ GroupDiscard(sockets[ch].path, ch)
    /\ sockets' = [sockets EXCEPT ![ch].state = "closed"]
    /\ UNCHANGED inboxes
    /\ UNCHANGED Database

\* receive: the text of the client goes to the whole group.
Receive(ch, d) ==
    /\ sockets[ch].state = "open"
    /\ Room(sockets[ch].path)
    /\ GroupSend(sockets[ch].path,
                 Event(UpdateType(sockets[ch].path), "none", 0, NoUser, <<>>, NoQr, d))
    /\ UNCHANGED <<groups, sockets>>
    /\ UNCHANGED Database

\* The consumer takes the next message of its channel and its handler for
\* the type of the message sends it to the client.
Deliver(ch) ==
    /\ sockets[ch].state = "open"
    /\ inboxes[ch] # <<>>
    /\ Head(inboxes[ch]).type \in Handled(sockets[ch].path)
    /\ inboxes' = [inboxes EXCEPT ![ch] = Tail(@)]
    /\ sockets' = [sockets EXCEPT ![ch].frames = Append(@, Head(inboxes[ch]))]
    /\ UNCHANGED groups
    /\ UNCHANGED Database

----------------------------------------------------------------------------
(* AnonymousLocationViewSet.create *)

\* The cool-down query of create.
RecentDonation(phone) ==
    {l \in anonymousLocations :
        /\ l.phone = phone
        /\ l.donation_received
        /\ l.next_request_allowed_at > now}

\* A lookup among all active requests.
ExistingOfAnySession(session_id) ==
    {l \in anonymousLocations : l.is_active}

\* get_queryset: the active requests seen during the last 24 hours.
Recent ==
    {l \in anonymousLocations :
        l.is_active /\ l.last_seen >= now - FreshnessHours * Hour}

\* The session lookup of create.
Existing(session_id) ==
    {l \in anonymousLocations : l.session_id = session_id /\ l.is_active}

\* The row the serializer builds for a new request.
NewLocation(id, d) ==
    [id |-> id, session_id |-> d.session_id, phone |-> d.profile.phone,
     first_name |-> d.profile.first_name, geo |-> d.profile.geo,
     supply_needs |-> d.profile.supply_needs, is_active |-> TRUE,
     last_seen |-> now, qr_code |-> NoQr,
     donation_received |-> (d.donation_received = "true"),
     donated_by_user |-> NoUser, donation_timestamp |-> NoTime,
     next_request_allowed_at |-> NoTime]

\* The instance after a partial update was applied to it.
UpdatedLocation(l, d) ==
    [l EXCEPT !.phone = d.profile.phone,
              !.first_name = d.profile.first_name,
              !.geo = d.profile.geo,
              !.supply_needs = d.profile.supply_needs,
              !.last_seen = now,
              !.donation_received =
                  IF d.donation_received = "absent" THEN @
                  ELSE d.donation_received = "true"]

\* create, up to its reads: the cool-down query and the session lookup.
\* Requests are created while their ids stay within limit.
CreateStartWithin(w, d, limit) ==
    /\ Free(w)
    /\ LET c == [IdleCall EXCEPT !.op = "create", !.data = d,
                                 !.pre = (RecentDonation(d.profile.phone) # {})] IN
       IF RecentDonation(d.profile.phone) # {}
       THEN \E r \in RecentDonation(d.profile.phone) :
               Continue(w, [c EXCEPT !.pc = "create_restricted", !.snap = r])
       ELSE IF Existing(d.session_id) # {}
       THEN \E e \in Existing(d.session_id) :
               Continue(w, [c EXCEPT !.pc = "create_update", !.snap = e,
                                         !.loc = e.id])
       ELSE /\ nextLocationId + Pending("create_insert") <= limit
            /\ Continue(w, [c EXCEPT !.pc = "create_insert"])
    /\ UNCHANGED <<now, anonymousLocations, donatorsOnTheWay, locationUpdates,
                   donationHistory, donationRatings, nextLocationId,
                   nextTrackId, nextHistoryId>>
    /\ UNCHANGED <<groups, inboxes, sockets, users>>

CreateStart(w, d) == CreateStartWithin(w, d, MaxLocations)

\* The 429 response: the remaining time is computed from a second reading
\* of the clock and truncated to whole seconds.
CreateRestricted(w) ==
    /\ calls[w].pc = "create_restricted"
    /\ calls' = [calls EXCEPT ![w] = IdleCall]
    /\ response' =
           [op |-> "create", result |-> "Restricted", pre |-> calls[w].pre,
            remaining |-> Seconds(calls[w].snap.next_request_allowed_at - now),
            listed |-> <<>>, user |-> NoUser]
    /\ UNCHANGED <<now, anonymousLocations, donatorsOnTheWay, locationUpdates,
                   donationHistory, donationRatings, nextLocationId,
                   nextTrackId, nextHistoryId>>
    /\ UNCHANGED <<groups, inboxes, sockets, users>>

\* serializer.save() of the update branch: every field of the instance is
\* written; a row that was deleted in the meantime is inserted again.
CreateUpdate(w) ==
    /\ calls[w].pc = "create_update"
    /\ anonymousLocations' =
           Upsert(anonymousLocations, UpdatedLocation(calls[w].snap, calls[w].data))
    /\ Finish(w, calls[w], "Updated")
    /\ UNCHANGED <<now, donatorsOnTheWay, locationUpdates, donationHistory,
                   donationRatings, nextLocationId, nextTrackId, nextHistoryId>>
    /\ UNCHANGED <<groups, inboxes, sockets, users>>

\* serializer.save() of the create branch: the row is inserted without a code.
CreateInsert(w) ==
    /\ calls[w].pc = "create_insert"
    /\ LET row == NewLocation(nextLocationId, calls[w].data) IN
       /\ anonymousLocations' = anonymousLocations \cup {row}
       /\ Continue(w, [calls[w] EXCEPT !.pc = "create_qr", !.snap = row,
                                           !.loc = row.id])
    /\ nextLocationId' = nextLocationId + 1
    /\ UNCHANGED <<now, donatorsOnTheWay, locationUpdates, donationHistory,
                   donationRatings, nextTrackId, nextHistoryId>>
    /\ UNCHANGED <<groups, inboxes, sockets, users>>

\* location.qr_code = ...; location.save()
CreateAssignQr(w) ==
    /\ calls[w].pc = "create_qr"
    /\ anonymousLocations' =
           Upsert(anonymousLocations,
                  [calls[w].snap EXCEPT !.qr_code = QrCode(calls[w].snap.id),
                                        !.last_seen = now])
    /\ Finish(w, calls[w], "Created")
    /\ UNCHANGED <<now, donatorsOnTheWay, locationUpdates, donationHistory,
                   donationRatings, nextLocationId, nextTrackId, nextHistoryId>>
    /\ UNCHANGED <<groups, inboxes, sockets, users>>

----------------------------------------------------------------------------
(* AnonymousLocationViewSet.active *)

\* The orders in which a queryset with ordering = ['-last_seen'] returns
\* the given rows, as sequences of their ids.
NewestFirst(rows) ==
    LET ids == {l.id : l \in rows}
        seen(id) == (CHOOSE l \in rows : l.id = id).last_seen
    IN {s \in [1..Cardinality(ids) -> ids] :
           /\ \A i, j \in DOMAIN s : i # j => s[i] # s[j]
           /\ \A i, j \in DOMAIN s : i < j => seen(s[i]) >= seen(s[j])}

\* active: the serialized get_queryset.
ListActive(w) ==
    /\ Free(w)
    /\ \E s \in NewestFirst(Recent) :
          response' = [op |-> "list", result |-> "Listed", pre |-> FALSE,
                       remaining |-> 0, listed |-> s, user |-> NoUser]
    /\ UNCHANGED <<now, anonymousLocations, donatorsOnTheWay, locationUpdates,
                   donationHistory, donationRatings, nextLocationId,
                   nextTrackId, nextHistoryId, calls>>
    /\ UNCHANGED <<groups, inboxes, sockets, users>>

----------------------------------------------------------------------------
(* AnonymousLocationViewSet.deactivate *)

\* get_object() over get_queryset, then delete() with its cascade.
Deactivate(w, id) ==
    /\ Free(w)
    /\ LET c == [IdleCall EXCEPT !.op = "deactivate", !.loc = id]
           found == {l \in Recent : l.id = id}
           gone == {t.id : t \in {t \in donatorsOnTheWay : t.location = id}}
       IN IF found = {}
          THEN /\ Finish(w, c, "NotFound")
               /\ UNCHANGED <<anonymousLocations, donatorsOnTheWay, locationUpdates>>
          ELSE /\ anonymousLocations' = {l \in anonymousLocations : l.id # id}
               /\ donatorsOnTheWay' = {t \in donatorsOnTheWay : t.location # id}
               /\ locationUpdates' =
                      SelectSeq(locationUpdates,
                                LAMBDA u : u.donator_on_the_way \notin gone)
               /\ Finish(w, c, "Deleted")
    /\ UNCHANGED <<now, donationHistory, donationRatings, nextLocationId,
                   nextTrackId, nextHistoryId>>
    /\ UNCHANGED <<groups, inboxes, sockets, users>>

----------------------------------------------------------------------------
(* DonatorOnTheWay rows *)

TrackRows(id, u) ==
    {t \in donatorsOnTheWay : t.location = id /\ t.donator = u}

\* No constraint on the pair.
NoUniqueTogether(table, row) == TRUE

\* unique_together = ['location', 'donator']
UniqueTogether(table, row) ==
    ~\E t \in table :
        t.id # row.id /\ t.location = row.location /\ t.donator = row.donator

\* The foreign key of DonatorOnTheWay.location.
LocationExists(id) == \E l \in anonymousLocations : l.id = id

\* What the database accepts as an INSERT of a tracking row.
InsertAllowed(row) ==
    LocationExists(row.location) /\ UniqueTogether(donatorsOnTheWay, row)

\* Model.save() of a tracking row: an UPDATE by primary key, and an INSERT
\* when no row has that key any more.
SaveAllowed(row) ==
    (\E t \in donatorsOnTheWay : t.id = row.id) \/ InsertAllowed(row)

----------------------------------------------------------------------------
(* AnonymousLocationViewSet.mark_on_the_way *)

\* The state get_or_create's defaults and the reset branch give a row.
OnTheWay(t) == [t EXCEPT !.arrived = FALSE, !.is_tracking = TRUE]

\* mark_on_the_way, up to its reads: get_object(), the donation_received
\* check and the lookup of get_or_create.
MarkStart(w, id, u) ==
    /\ Free(w)
    /\ LET c == [IdleCall EXCEPT !.op = "mark", !.loc = id, !.user = u,
                                 !.pre = (TrackRows(id, u) # {})]
           found == {l \in Recent : l.id = id}
       IN IF found = {}
          THEN Finish(w, c, "NotFound")
          ELSE IF \E l \in found : l.donation_received
          THEN Finish(w, c, "AlreadyFulfilled")
          ELSE IF TrackRows(id, u) # {}
          THEN \E t \in TrackRows(id, u) :
                  Continue(w, [c EXCEPT !.pc = "mark_save", !.snap = t])
          ELSE /\ nextTrackId + Pending("mark_create") <= MaxTrackRows
               /\ Continue(w, [c EXCEPT !.pc = "mark_create"])
    /\ UNCHANGED <<now, anonymousLocations, donatorsOnTheWay, locationUpdates,
                   donationHistory, donationRatings, nextLocationId,
                   nextTrackId, nextHistoryId>>
    /\ UNCHANGED <<groups, inboxes, sockets, users>>

\* The create of get_or_create.  When the unique constraint refuses the row,
\* get_or_create fetches the row that is there and the handler resets it.
\* The block then publishes tracking_started and commits.
MarkCreate(w) ==
    /\ calls[w].pc = "mark_create"
    /\ Room("locations")
    /\ LET c == calls[w]
           row == [id |-> nextTrackId, location |-> c.loc, donator |-> c.user,
                   arrived |-> FALSE, is_tracking |-> TRUE,
                   last_location_update |-> NoTime]
       IN IF ~LocationExists(c.loc)
          THEN /\ Finish(w, c, "Error")
               /\ UNCHANGED <<donatorsOnTheWay, nextTrackId, inboxes>>
          ELSE IF UniqueTogether(donatorsOnTheWay, row)
          THEN /\ donatorsOnTheWay' = donatorsOnTheWay \cup {row}
               /\ nextTrackId' = nextTrackId + 1
               /\ GroupSend("locations", TrackingUpdate("tracking_started", c.loc, c.user))
               /\ Finish(w, c, "OnTheWay")
          ELSE /\ donatorsOnTheWay' =
                      {IF t \in TrackRows(c.loc, c.user) THEN OnTheWay(t) ELSE t
                          : t \in donatorsOnTheWay}
               /\ nextTrackId' = nextTrackId
               /\ GroupSend("locations", TrackingUpdate("tracking_started", c.loc, c.user))
               /\ Finish(w, c, "OnTheWay")
    /\ UNCHANGED <<now, anonymousLocations, locationUpdates, donationHistory,
                   donationRatings, nextLocationId, nextHistoryId>>
    /\ UNCHANGED <<groups, sockets, users>>

\* The reset branch: donator_entry.save(), then the publish and the commit.
MarkSave(w) ==
    /\ calls[w].pc = "mark_save"
    /\ Room("locations")
    /\ LET c == calls[w]
           row == OnTheWay(c.snap)
       IN IF SaveAllowed(row)
          THEN /\ donatorsOnTheWay' = Upsert(donatorsOnTheWay, row)
               /\ GroupSend("locations", TrackingUpdate("tracking_started", c.loc, c.user))
               /\ Finish(w, c, "OnTheWay")
          ELSE /\ donatorsOnTheWay' = donatorsOnTheWay
               /\ inboxes' = inboxes
               /\ Finish(w, c, "Error")
    /\ UNCHANGED <<now, anonymousLocations, locationUpdates, donationHistory,
                   donationRatings, nextLocationId, nextTrackId, nextHistoryId>>
    /\ UNCHANGED <<groups, sockets, users>>

----------------------------------------------------------------------------
(* AnonymousLocationViewSet.scan_qr_code *)

\* The fields scan_qr_code sets on the request before location.save().
Fulfilled(l, u) ==
    [l EXCEPT !.donation_received = TRUE,
              !.donated_by_user = u,
              !.donation_timestamp = now,
              !.next_request_allowed_at = now + CooldownHours * Hour,
              !.is_active = FALSE,
              !.last_seen = now]

\* The history row built from the stored request instead of the instance
\* the handler has just saved.
HistoryRecordOfStored(id, l, u, q) ==
    LET stored == {m \in anonymousLocations : m.id = l.id}
        src == IF stored = {} THEN l ELSE CHOOSE m \in stored : TRUE
    IN [id |-> id, donator |-> u, affected_first_name |-> src.first_name,
        affected_phone |-> src.phone, geo |-> src.geo,
        supply_needs_fulfilled |-> src.supply_needs, qr_code |-> q]

\* DonationHistory.objects.create(...)
HistoryRecord(id, l, u, q) ==
    [id |-> id, donator |-> u, affected_first_name |-> l.first_name,
     affected_phone |-> l.phone, geo |-> l.geo,
     supply_needs_fulfilled |-> l.supply_needs, qr_code |-> q]

\* An update of the tracking rows of every donator of the request.
ArrivedAll(table, id, u) ==
    {IF t.location = id THEN [t EXCEPT !.arrived = TRUE] ELSE t : t \in table}

\* The update of the donator's tracking row.
Arrived(table, id, u) ==
    {IF t.location = id /\ t.donator = u THEN [t EXCEPT !.arrived = TRUE] ELSE t
        : t \in table}

\* scan_qr_code, up to its reads: the lookup among the active requests and
\* the donation_received check.
RedeemStart(w, q, u) ==
    /\ Free(w)
    /\ LET c == [IdleCall EXCEPT !.op = "redeem", !.qr = q, !.user = u,
                     !.pre = (\E h \in donationHistory : h.qr_code = q)]
           found == {l \in anonymousLocations : l.qr_code = q /\ l.is_active}
       IN IF found = {}
          THEN Finish(w, c, "NotFound")
          ELSE \E l \in found :
                 IF l.donation_received
                 THEN Finish(w, [c EXCEPT !.loc = l.id], "AlreadyFulfilled")
                 ELSE /\ nextHistoryId + Pending("redeem_txn")
                             + Pending("redeem_commit") <= MaxHistory
                      /\ Continue(w, [c EXCEPT !.pc = "redeem_txn",
                                                   !.loc = l.id, !.snap = l])
    /\ UNCHANGED <<now, anonymousLocations, donatorsOnTheWay, locationUpdates,
                   donationHistory, donationRatings, nextLocationId,
                   nextTrackId, nextHistoryId>>
    /\ UNCHANGED <<groups, inboxes, sockets, users>>

\* The last statement of the block before its response: the notification
\* goes to the group while the three writes of the block are not committed.
RedeemNotify(w) ==
    /\ calls[w].pc = "redeem_txn"
    /\ Room("locations")
    /\ LET c == calls[w] IN
       /\ GroupSend("locations", QrScanNotification(c.snap, c.user, c.qr))
       /\ Continue(w, [c EXCEPT !.pc = "redeem_commit"])
    /\ UNCHANGED <<now, anonymousLocations, donatorsOnTheWay, locationUpdates,
                   donationHistory, donationRatings, nextLocationId,
                   nextTrackId, nextHistoryId>>
    /\ UNCHANGED <<groups, sockets, users>>

\* The transaction.atomic() block commits: the three writes become visible
\* together.
RedeemCommit(w) ==
    /\ calls[w].pc = "redeem_commit"
    /\ LET c == calls[w] IN
       /\ anonymousLocations' = Upsert(anonymousLocations, Fulfilled(c.snap, c.user))
       /\ donatorsOnTheWay' = Arrived(donatorsOnTheWay, c.loc, c.user)
       /\ donationHistory' =
              donationHistory \cup {HistoryRecord(nextHistoryId, c.snap, c.user, c.qr)}
       /\ Finish(w, [c EXCEPT !.hist = nextHistoryId], "Redeemed")
    /\ nextHistoryId' = nextHistoryId + 1
    /\ UNCHANGED <<now, locationUpdates, donationRatings, nextLocationId,
                   nextTrackId>>
    /\ UNCHANGED <<groups, inboxes, sockets, users>>

\* A statement of the block raises: the block is rolled back and the
\* handler answers with the error.
RedeemAbort(w) ==
    /\ calls[w].pc \in {"redeem_txn", "redeem_commit"}
    /\ Finish(w, calls[w], "Error")
    /\ UNCHANGED <<now, anonymousLocations, donatorsOnTheWay, locationUpdates,
                   donationHistory, donationRatings, nextLocationId,
                   nextTrackId, nextHistoryId>>
    /\ UNCHANGED <<groups, inboxes, sockets, users>>

----------------------------------------------------------------------------
(* location_update *)

\* Positions a donator reports: two places, and a place on the equator.
GeoSamples == {<<14, 121>>, <<15, 120>>, <<0, 121>>}

\* not all([location_id, latitude, longitude]): a coordinate of 0 counts as
\* a missing one.
AllGiven(g) == g[1] # 0 /\ g[2] # 0

\* location_update, up to its read: the tracking row with is_tracking=True.
PositionStart(w, id, u, g) ==
    /\ Free(w)
    /\ LET c == [IdleCall EXCEPT !.op = "position", !.loc = id, !.user = u,
                                 !.data = [geo |-> g],
                                 !.pre = (\E t \in TrackRows(id, u) : t.is_tracking)]
           found == {t \in TrackRows(id, u) : t.is_tracking}
       IN IF ~AllGiven(g)
          THEN Finish(w, c, "Invalid")
          ELSE IF found = {}
          THEN Finish(w, c, "NotTracking")
          ELSE /\ Len(locationUpdates) + Pending("position_insert") < MaxUpdates
               /\ \E t \in found :
                     Continue(w, [c EXCEPT !.pc = "position_insert", !.snap = t])
    /\ UNCHANGED <<now, anonymousLocations, donatorsOnTheWay, locationUpdates,
                   donationHistory, donationRatings, nextLocationId,
                   nextTrackId, nextHistoryId>>
    /\ UNCHANGED <<groups, inboxes, sockets, users>>

\* LocationUpdate.objects.create(...); its foreign key needs the tracking row.
PositionInsert(w) ==
    /\ calls[w].pc = "position_insert"
    /\ LET c == calls[w] IN
       IF \E t \in donatorsOnTheWay : t.id = c.snap.id
       THEN /\ locationUpdates' =
                   Append(locationUpdates,
                          [donator_on_the_way |-> c.snap.id, geo |-> c.data.geo])
            /\ Continue(w, [c EXCEPT !.pc = "position_save"])
       ELSE /\ locationUpdates' = locationUpdates
            /\ Finish(w, c, "Error")
    /\ UNCHANGED <<now, anonymousLocations, donatorsOnTheWay, donationHistory,
                   donationRatings, nextLocationId, nextTrackId, nextHistoryId>>
    /\ UNCHANGED <<groups, inboxes, sockets, users>>

\* donator_entry.last_location_update = timezone.now(); donator_entry.save()
\* and the publish of the position.
PositionSave(w) ==
    /\ calls[w].pc = "position_save"
    /\ Room("locations")
    /\ LET c == calls[w]
           row == [c.snap EXCEPT !.last_location_update = now]
       IN
       IF SaveAllowed(row)
       THEN /\ donatorsOnTheWay' = Upsert(donatorsOnTheWay, row)
            /\ GroupSend("locations", TrackingUpdate("position", c.loc, c.user))
            /\ Finish(w, c, "Ack")
       ELSE /\ donatorsOnTheWay' = donatorsOnTheWay
            /\ inboxes' = inboxes
            /\ Finish(w, c, "Error")
    /\ UNCHANGED <<now, anonymousLocations, locationUpdates, donationHistory,
                   donationRatings, nextLocationId, nextTrackId, nextHistoryId>>
    /\ UNCHANGED <<groups, sockets, users>>

----------------------------------------------------------------------------
(* stop_tracking *)

\* stop_tracking, up to its read: the tracking row of the pair.
StopStart(w, id, u) ==
    /\ Free(w)
    /\ LET c == [IdleCall EXCEPT !.op = "stop", !.loc = id, !.user = u,
                                 !.pre = (TrackRows(id, u) # {})] IN
       IF TrackRows(id, u) = {}
       THEN Finish(w, c, "NotFound")
       ELSE \E t \in TrackRows(id, u) :
               Continue(w, [c EXCEPT !.pc = "stop_save", !.snap = t])
    /\ UNCHANGED <<now, anonymousLocations, donatorsOnTheWay, locationUpdates,
                   donationHistory, donationRatings, nextLocationId,
                   nextTrackId, nextHistoryId>>
    /\ UNCHANGED <<groups, inboxes, sockets, users>>

\* donator_entry.is_tracking = False; donator_entry.save()
StopSave(w) ==
    /\ calls[w].pc = "stop_save"
    /\ Room("locations")
    /\ LET c == calls[w]
           row == [c.snap EXCEPT !.is_tracking = FALSE]
       IN IF SaveAllowed(row)
          THEN /\ donatorsOnTheWay' = Upsert(donatorsOnTheWay, row)
               /\ GroupSend("locations", TrackingUpdate("tracking_stopped", c.loc, c.user))
               /\ Finish(w, c, "Ack")
          ELSE /\ donatorsOnTheWay' = donatorsOnTheWay
               /\ inboxes' = inboxes
               /\ Finish(w, c, "Error")
    /\ UNCHANGED <<now, anonymousLocations, locationUpdates, donationHistory,
                   donationRatings, nextLocationId, nextTrackId, nextHistoryId>>
    /\ UNCHANGED <<groups, sockets, users>>

----------------------------------------------------------------------------
(* DonationRatingViewSet.create *)

NoRating == 0

Ratings == {NoRating, 4, 6}

Categories == {"water", "food", "medical_supplies", "clothing", "shelter_materials"}

ReceivedKey ==
    [water |-> "water_received", food |-> "food_received",
     medical_supplies |-> "medical_supplies_received",
     clothing |-> "clothing_received",
     shelter_materials |-> "shelter_materials_received"]

\* supplies_confirmed payloads: JSON objects over the keys of the model's
\* comment, none of them checked by the serializer.
ConfirmPayloads ==
    { <<>>,
      [water_received |-> 5, food_received |-> 2],
      [water_received |-> 0, clothing_received |-> 0 - 1, other_items |-> "tents"],
      [all_supplies_received |-> TRUE, other_items |-> ""] }

RatingPayloads ==
    { [session_id |-> Session(1), rating |-> r, supplies_confirmed |-> sc]
        : r \in Ratings, sc \in ConfirmPayloads }

\* dict.get(key, default)
Get(d, k, default) == IF k \in DOMAIN d THEN d[k] ELSE default

\* The conversion without the filter on non-zero values.
ActualSuppliesUnfiltered(sc) ==
    LET kept == {c \in Categories : ReceivedKey[c] \in DOMAIN sc}
        other == IF Get(sc, "other_items", "") # "" THEN {"other"} ELSE {}
    IN [k \in kept \cup other |->
           IF k = "other" THEN sc["other_items"] ELSE sc[ReceivedKey[k]]]

\* The conversion of supplies_confirmed to the supply_needs_fulfilled format.
ActualSupplies(sc) ==
    LET kept == {c \in Categories : Get(sc, ReceivedKey[c], 0) > 0}
        other == IF Get(sc, "other_items", "") # "" THEN {"other"} ELSE {}
    IN [k \in kept \cup other |->
           IF k = "other" THEN sc["other_items"] ELSE sc[ReceivedKey[k]]]

\* hasattr(donation_history, 'rating')
HasRating(h) ==
    \E i \in 1..Len(donationRatings) : donationRatings[i].donation_history = h

\* validate_rating and the choices of DonationRating.rating
ValidRating(r) == r = NoRating \/ (r >= 1 /\ r <= 5)

\* A plain foreign key: any number of rating rows per donation_history.
ManyToOne(h) == TRUE

\* The OneToOneField: one rating row per donation_history.
OneToOne(h) == ~HasRating(h)

\* create, up to its reads: the history row and the existing-rating check.
RateStart(w, h, d) ==
    /\ Free(w)
    /\ LET c == [IdleCall EXCEPT !.op = "rate", !.hist = h, !.data = d,
                                 !.pre = HasRating(h)]
           found == {x \in donationHistory : x.id = h}
       IN IF found = {}
          THEN Finish(w, c, "NotFound")
          ELSE IF HasRating(h)
          THEN Finish(w, c, "DuplicateRating")
          ELSE \E x \in found :
                  Continue(w, [c EXCEPT !.pc = "rate_insert", !.snap = x])
    /\ UNCHANGED <<now, anonymousLocations, donatorsOnTheWay, locationUpdates,
                   donationHistory, donationRatings, nextLocationId,
                   nextTrackId, nextHistoryId>>
    /\ UNCHANGED <<groups, inboxes, sockets, users>>

\* serializer.is_valid() and serializer.save()
RateInsert(w) ==
    /\ calls[w].pc = "rate_insert"
    /\ LET c == calls[w] IN
       IF ValidRating(c.data.rating) /\ OneToOne(c.hist)
       THEN /\ donationRatings' =
                   Append(donationRatings,
                          [donation_history |-> c.hist,
                           rating |-> c.data.rating,
                           supplies_confirmed |-> c.data.supplies_confirmed,
                           session_id |-> c.data.session_id])
            /\ Continue(w, [c EXCEPT !.pc = "rate_history"])
       ELSE /\ donationRatings' = donationRatings
            /\ Finish(w, c, "Invalid")
    /\ UNCHANGED <<now, anonymousLocations, donatorsOnTheWay, locationUpdates,
                   donationHistory, nextLocationId, nextTrackId, nextHistoryId>>
    /\ UNCHANGED <<groups, inboxes, sockets, users>>

\* The instance with the supplies replaced and the donator's name lost.
ConfirmedAnonymously(h, sc) ==
    [h EXCEPT !.supply_needs_fulfilled = ActualSupplies(sc), !.donator = NoUser]

\* donation_history.supply_needs_fulfilled = actual_supplies
Confirmed(h, sc) == [h EXCEPT !.supply_needs_fulfilled = ActualSupplies(sc)]

\* The update of the history row with the supplies actually received.
RateHistory(w) ==
    /\ calls[w].pc = "rate_history"
    /\ LET c == calls[w]
           sc == c.data.supplies_confirmed
       IN /\ donationHistory' =
                 IF sc # <<>>
                 THEN Upsert(donationHistory, Confirmed(c.snap, sc))
                 ELSE donationHistory
          /\ Finish(w, c, "Rated")
    /\ UNCHANGED <<now, anonymousLocations, donatorsOnTheWay, locationUpdates,
                   donationRatings, nextLocationId, nextTrackId, nextHistoryId>>
    /\ UNCHANGED <<groups, inboxes, sockets, users>>

\* donation_history.save() raises (the database refuses the write, or the
\* comparison of a non-numeric quantity with 0 raises before it): the
\* handler answers 500.  create has no transaction.atomic() block, so the
\* rating inserted by serializer.save() stays committed.
RateAbort(w) ==
    /\ calls[w].pc = "rate_history"
    /\ calls[w].data.supplies_confirmed # <<>>
    /\ Finish(w, calls[w], "Error")
    /\ UNCHANGED <<now, anonymousLocations, donatorsOnTheWay, locationUpdates,
                   donationHistory, donationRatings, nextLocationId,
                   nextTrackId, nextHistoryId>>
    /\ UNCHANGED <<groups, inboxes, sockets, users>>

----------------------------------------------------------------------------
(* Time *)

\* An hour passes.
Tick ==
    /\ now + Hour <= MaxTime * Hour
    /\ now' = now + Hour
    /\ UNCHANGED <<anonymousLocations, donatorsOnTheWay, locationUpdates,
                   donationHistory, donationRatings, nextLocationId,
                   nextTrackId, nextHistoryId, calls, response>>
    /\ UNCHANGED <<groups, inboxes, sockets, users>>

\* The instants at which the clock is read during the first limit hours:
\* the start, one hour in, the limit-th hour and the last tick before it.
Instants(limit) == {0, Hour, limit * Hour - 1, limit * Hour}

\* Time passes up to the next of the given instants.
ElapseTo(instants) ==
    /\ \E t \in instants :
          /\ t > now
          /\ \A u \in instants : u > now => t <= u
          /\ now' = t
    /\ UNCHANGED <<anonymousLocations, donatorsOnTheWay, locationUpdates,
                   donationHistory, donationRatings, nextLocationId,
                   nextTrackId, nextHistoryId, calls, response>>
    /\ UNCHANGED <<groups, inboxes, sockets, users>>

Elapse(limit) == ElapseTo(Instants(limit))

\* The instants around the end of the freshness window of a request seen
\* at the start: the last tick at which it is listed and the first at which
\* it is not.
FreshnessInstants ==
    {0, Hour, FreshnessHours * Hour, FreshnessHours * Hour + 1}

Age == ElapseTo(FreshnessInstants)

----------------------------------------------------------------------------
(* The request lifecycle, from the empty database: every operation that    *)
(* writes a request row, and the redemption that writes the ledger.        *)

Quiet ==
    /\ calls = [w \in Workers |-> IdleCall]
    /\ response = [op |-> "none", result |-> "none", pre |-> FALSE, remaining |-> 0,
                   listed |-> <<>>, user |-> NoUser]
    /\ groups = [g \in GroupNames |-> {}]
    /\ inboxes = [ch \in ChannelNames |-> <<>>]
    /\ sockets = [ch \in ChannelNames |-> NewSocket]
    /\ users = {Donator(u) : u \in Users}

Init ==
    /\ now = 0
    /\ anonymousLocations = {}
    /\ donatorsOnTheWay = {}
    /\ locationUpdates = <<>>
    /\ donationHistory = {}
    /\ donationRatings = <<>>
    /\ nextLocationId = 1
    /\ nextTrackId = 1
    /\ nextHistoryId = 1
    /\ Quiet

Create ==
    \/ \E w \in Workers, d \in SubmitPayloads : CreateStart(w, d)
    \/ \E w \in Workers : CreateRestricted(w)
    \/ \E w \in Workers : CreateUpdate(w)
    \/ \E w \in Workers : CreateInsert(w)
    \/ \E w \in Workers : CreateAssignQr(w)

\* Scans of the codes of the first n requests.
Redeem(n) ==
    \/ \E w \in Workers, id \in 1..n, u \in Users : RedeemStart(w, QrCode(id), u)
    \/ \E w \in Workers : RedeemNotify(w)
    \/ \E w \in Workers : RedeemCommit(w)
    \/ \E w \in Workers : RedeemAbort(w)

Next ==
    \/ Create
    \/ \E w \in Workers, id \in 1..MaxLocations : Deactivate(w, id)
    \/ Redeem(MaxLocations)
    \/ Tick

Spec == Init /\ [][Next]_vars

----------------------------------------------------------------------------
(* Tracking, from a database that holds open requests: every operation     *)
(* that writes a tracking row or a position sample.                        *)

\* The request the i-th create of a fresh session leaves behind.
OpenRequest(i) ==
    [NewLocation(i, [session_id |-> Session(i),
                     profile |-> CHOOSE p \in Profiles : p.first_name = "Ana",
                     donation_received |-> "absent"])
        EXCEPT !.qr_code = QrCode(i)]

InitOpen ==
    /\ now = 0
    /\ anonymousLocations = {OpenRequest(i) : i \in 1..NumOpen}
    /\ donatorsOnTheWay = {}
    /\ locationUpdates = <<>>
    /\ donationHistory = {}
    /\ donationRatings = <<>>
    /\ nextLocationId = NumOpen + 1
    /\ nextTrackId = 1
    /\ nextHistoryId = 1
    /\ Quiet

Mark ==
    \/ \E w \in Workers, id \in 1..NumOpen, u \in Users : MarkStart(w, id, u)
    \/ \E w \in Workers : MarkCreate(w)
    \/ \E w \in Workers : MarkSave(w)

Position ==
    \/ \E w \in Workers, id \in 1..NumOpen, u \in Users, g \in GeoSamples :
          PositionStart(w, id, u, g)
    \/ \E w \in Workers : PositionInsert(w)
    \/ \E w \in Workers : PositionSave(w)

Stop ==
    \/ \E w \in Workers, id \in 1..NumOpen, u \in Users : StopStart(w, id, u)
    \/ \E w \in Workers : StopSave(w)

NextTracking ==
    \/ Mark
    \/ Position
    \/ Stop
    \/ Redeem(NumOpen)
    \/ \E w \in Workers, id \in 1..NumOpen : Deactivate(w, id)

SpecTracking == InitOpen /\ [][NextTracking]_vars

----------------------------------------------------------------------------
(* Redemption, from a database that holds open requests, with clients that *)
(* keep updating their requests.                                           *)

\* Payloads of clients that send the request form only.
FormPayloads == {d \in SubmitPayloads : d.donation_received = "absent"}

Update ==
    \/ \E w \in Workers, d \in FormPayloads :
          /\ Existing(d.session_id) # {}
          /\ RecentDonation(d.profile.phone) = {}
          /\ CreateStart(w, d)
    \/ \E w \in Workers : CreateUpdate(w)

NextRedeem ==
    \/ Update
    \/ Redeem(NumOpen)
    \/ \E w \in Workers, id \in 1..NumOpen : Deactivate(w, id)
    \/ Tick

SpecRedeem == InitOpen /\ [][NextRedeem]_vars

----------------------------------------------------------------------------
(* Rating, from a database that holds open requests: every operation that  *)
(* writes a ledger row or a rating.                                        *)

Rate ==
    \/ \E w \in Workers, h \in 1..MaxHistory, d \in RatingPayloads : RateStart(w, h, d)
    \/ \E w \in Workers : RateInsert(w)
    \/ \E w \in Workers : RateHistory(w)

NextRating ==
    \/ Redeem(NumOpen)
    \/ Rate

SpecRating == InitOpen /\ [][NextRating]_vars

----------------------------------------------------------------------------
(* Rating with a failing history update.                                   *)

NextRatingFailure ==
    \/ NextRating
    \/ \E w \in Workers : RateAbort(w)

SpecRatingFailure == InitOpen /\ [][NextRatingFailure]_vars

----------------------------------------------------------------------------
(* The cool-down, from a database that holds open requests: clients submit *)
(* the request form again while and after the cool-down runs.              *)

\* The requester of the open request submits the form again; a second
\* session submits it with the same or with another phone number.
CooldownPayloads ==
    {d \in FormPayloads : d.profile.first_name = "Ana" \/ d.session_id = Session(2)}

Submit ==
    \/ \E w \in Workers, d \in CooldownPayloads :
          CreateStartWithin(w, d, NumOpen + MaxLocations)
    \/ \E w \in Workers : CreateRestricted(w)
    \/ \E w \in Workers : CreateUpdate(w)
    \/ \E w \in Workers : CreateInsert(w)
    \/ \E w \in Workers : CreateAssignQr(w)

NextCooldown ==
    \/ Submit
    \/ Redeem(NumOpen)
    \/ Elapse(MaxWait)

SpecCooldown == InitOpen /\ [][NextCooldown]_vars

----------------------------------------------------------------------------
(* One session, from the empty database: a client that submits its form    *)
(* more than once at a time, and withdraws.                                *)

SessionPayloads == {d \in FormPayloads : d.session_id = Session(1)}

Resubmit ==
    \/ \E w \in Workers, d \in SessionPayloads :
          CreateStartWithin(w, d, MaxLocations + 1)
    \/ \E w \in Workers : CreateUpdate(w)
    \/ \E w \in Workers : CreateInsert(w)
    \/ \E w \in Workers : CreateAssignQr(w)

NextSession ==
    \/ Resubmit
    \/ \E w \in Workers, id \in 1..(MaxLocations + 1) : Deactivate(w, id)

SpecSession == Init /\ [][NextSession]_vars

----------------------------------------------------------------------------
(* The ledger, from a database that holds open requests: redemption and    *)
(* rating, with clients that update and withdraw their requests.           *)

\* Requesters who confirm supplies without giving stars.
ConfirmationPayloads == {d \in RatingPayloads : d.rating = NoRating}

Confirm ==
    \/ \E w \in Workers, h \in 1..MaxHistory, d \in ConfirmationPayloads :
          RateStart(w, h, d)
    \/ \E w \in Workers : RateInsert(w)
    \/ \E w \in Workers : RateHistory(w)

NextLedger ==
    \/ Redeem(NumOpen)
    \/ Confirm
    \/ Update
    \/ \E w \in Workers, id \in 1..NumOpen : Deactivate(w, id)

SpecLedger == InitOpen /\ [][NextLedger]_vars

----------------------------------------------------------------------------
(* The listing, from a database that holds open requests: requests are     *)
(* submitted, redeemed and withdrawn while they age.                       *)

ListingPayloads == {d \in FormPayloads : d.profile.first_name = "Ana"}

Renew ==
    \/ \E w \in Workers, d \in ListingPayloads :
          CreateStartWithin(w, d, NumOpen + MaxLocations)
    \/ \E w \in Workers : CreateRestricted(w)
    \/ \E w \in Workers : CreateUpdate(w)
    \/ \E w \in Workers : CreateInsert(w)
    \/ \E w \in Workers : CreateAssignQr(w)

NextListing ==
    \/ Renew
    \/ Redeem(NumOpen)
    \/ \E w \in Workers, id \in 1..(NumOpen + MaxLocations) : Deactivate(w, id)
    \/ \E w \in Workers : ListActive(w)
    \/ Age

SpecListing == InitOpen /\ [][NextListing]_vars

----------------------------------------------------------------------------
(* Position reports of any value, from a database that holds open          *)
(* requests.                                                               *)

MaxLatitude == 90
MaxLongitude == 180

\* Positions a client can send: a place, one north of the pole and one east
\* of the date line.
ReportedSamples == {<<14, 121>>, <<95, 121>>, <<14, 200>>}

Report ==
    \/ \E w \in Workers, id \in 1..NumOpen, u \in Users, g \in ReportedSamples :
          PositionStart(w, id, u, g)
    \/ \E w \in Workers : PositionInsert(w)
    \/ \E w \in Workers : PositionSave(w)

NextReport ==
    \/ Mark
    \/ Report
    \/ Stop
    \/ Redeem(NumOpen)

SpecReport == InitOpen /\ [][NextReport]_vars

----------------------------------------------------------------------------
(* The WebSocket clients alone: they connect to either consumer, publish   *)
(* through it and disconnect.                                              *)

Subscribe ==
    \/ \E ch \in ChannelNames, g \in GroupNames : Connect(ch, g)
    \/ \E ch \in ChannelNames : Accept(ch)
    \/ \E ch \in ChannelNames : Disconnect(ch)
    \/ \E ch \in ChannelNames : Deliver(ch)

NextChannels ==
    \/ Subscribe
    \/ \E ch \in ChannelNames, d \in ClientData : Receive(ch, d)

SpecChannels == InitOpen /\ [][NextChannels]_vars

----------------------------------------------------------------------------
(* Notifications: donators redeem open requests while WebSocket clients    *)
(* are subscribed.                                                         *)

NextNotify ==
    \/ Subscribe
    \/ Redeem(NumOpen)

SpecNotify == InitOpen /\ [][NextNotify]_vars

----------------------------------------------------------------------------
(* Accounts: people register, an administrator suspends accounts, clients  *)
(* log in with right and wrong credentials.                                *)

LoginEmails == {Addresses[u] : u \in DOMAIN Addresses} \cup {""}

LoginPasswords == {"pw-d1", "pw-u3", "wrong", ""}

NextLogin ==
    \/ \E role \in ROLE_CHOICES : Register("u3", role)
    \/ RegisterAffected("a1")
    \/ \E u \in DOMAIN Addresses : Suspend(u)
    \/ \E w \in Workers, email \in LoginEmails, raw \in LoginPasswords :
          LoginStart(w, email, raw)
    \/ \E w \in Workers : Login(w)

SpecLogin == Init /\ [][NextLogin]_vars

----------------------------------------------------------------------------
(* Roles: a donator and an affected user, both logged in, mark and redeem  *)
(* open requests.                                                          *)

\* The users whose tokens are used.
Actors == {"d1", "a1"}

\* request.user of an authenticated request.
Authenticated == {r.id : r \in {x \in users : x.is_active /\ x.id \in Actors}}

NextRoles ==
    \/ RegisterAffected("a1")
    \/ \E w \in Workers, id \in 1..NumOpen, u \in Authenticated : MarkStart(w, id, u)
    \/ \E w \in Workers : MarkCreate(w)
    \/ \E w \in Workers : MarkSave(w)
    \/ \E w \in Workers, id \in 1..NumOpen, u \in Authenticated :
          RedeemStart(w, QrCode(id), u)
    \/ \E w \in Workers : RedeemNotify(w)
    \/ \E w \in Workers : RedeemCommit(w)
    \/ \E w \in Workers : RedeemAbort(w)

SpecRoles == InitOpen /\ [][NextRoles]_vars

----------------------------------------------------------------------------
(* Properties *)

\* The step in which worker w leaves program point pc and responds.
Returns(w, pc) == calls[w].pc = pc /\ calls'[w].pc = "idle"

\* C1: two scans of the same code never leave two DonationHistory rows for
\* that code: one scan succeeds, the other is rejected.
C1_OneHistoryPerCode ==
    \A h1, h2 \in donationHistory : h1.qr_code = h2.qr_code => h1 = h2

\* C2: in every committed state a request is marked donation_received only
\* together with its DonationHistory row, and the request of a
\* DonationHistory row is never open.
C2_RequestAndHistoryAgree ==
    /\ \A l \in anonymousLocations :
          l.donation_received => \E h \in donationHistory : h.qr_code = l.qr_code
    /\ \A h \in donationHistory : \A l \in anonymousLocations :
          l.qr_code = h.qr_code => l.donation_received /\ ~l.is_active

\* C3: fulfilled is terminal: a request that a redeem has fulfilled
\* (donation_received, inactive) keeps donation_received true and is never
\* active again.
C3_FulfilledIsTerminal ==
    [][\A l \in anonymousLocations : \A m \in anonymousLocations' :
          (l.donation_received /\ ~l.is_active /\ m.id = l.id) =>
              (m.donation_received /\ ~m.is_active)]_vars

C5_LaterRedeemAlreadyFulfilled ==
    (response.op = "redeem" /\ response.pre) => response.result = "AlreadyFulfilled"

\* The tracking rows of one (request, donator) pair in a table.
PairRows(table, id, u) == {t \in table : t.location = id /\ t.donator = u}

\* C6: every (request, donator) pair has at most one tracking record, and a
\* markOnTheWay that finds the pair's record leaves that one record with
\* arrived=false and isTracking=true.
C6_OneTrackingRowPerPair ==
    /\ [](\A t1, t2 \in donatorsOnTheWay :
            (t1.location = t2.location /\ t1.donator = t2.donator) => t1 = t2)
    /\ [][\A w \in Workers :
            ((Returns(w, "mark_create") \/ Returns(w, "mark_save"))
                /\ response'.result = "OnTheWay") =>
                LET before == PairRows(donatorsOnTheWay, calls[w].loc, calls[w].user)
                    after == PairRows(donatorsOnTheWay', calls[w].loc, calls[w].user)
                IN /\ Cardinality(after) = 1
                   /\ \A t \in after : ~t.arrived /\ t.is_tracking
                   /\ before # {} => {t.id : t \in after} = {t.id : t \in before}]_vars

\* A markOnTheWay that found the record of its pair has returned, and the
\* one record of the pair is on the way.
C6_Witness ==
    /\ response.op = "mark" /\ response.pre /\ response.result = "OnTheWay"
    /\ \E t \in donatorsOnTheWay : ~t.arrived /\ t.is_tracking
    /\ nextTrackId = 2

\* C7: a markOnTheWay that acts on a request whose donation_received is true
\* fails with AlreadyFulfilled and writes no tracking record.
C7_NoMarkAfterFulfilled ==
    [][\A w \in Workers :
          ((Returns(w, "mark_create") \/ Returns(w, "mark_save"))
              /\ \E l \in anonymousLocations :
                    l.id = calls[w].loc /\ l.donation_received) =>
              (response'.result = "AlreadyFulfilled"
                  /\ donatorsOnTheWay' = donatorsOnTheWay)]_vars

\* C8: a successful redeem(q, D) leaves the tracking record of (request, D)
\* arrived and no longer tracking.
C8_RedeemClosesTracking ==
    [][\A w \in Workers :
          (Returns(w, "redeem_commit") /\ response'.result = "Redeemed") =>
              \A t \in PairRows(donatorsOnTheWay', calls[w].loc, calls[w].user) :
                  t.arrived /\ ~t.is_tracking]_vars

\* s is a prefix of t.
IsPrefix(s, t) ==
    Len(s) <= Len(t) /\ \A i \in 1..Len(s) : s[i] = t[i]

\* C9: every DonationHistory has at most one DonationRating; stored ratings
\* never change; a submitRating issued when the history has a rating is
\* rejected with DuplicateRating and changes neither the ratings nor the
\* history.
C9_OneRatingPerHistory ==
    /\ [](\A i, j \in 1..Len(donationRatings) :
            donationRatings[i].donation_history = donationRatings[j].donation_history
                => i = j)
    /\ []((response.op = "rate" /\ response.pre) => response.result = "DuplicateRating")
    /\ [][/\ IsPrefix(donationRatings, donationRatings')
          /\ (response' # response /\ response'.op = "rate" /\ response'.pre) =>
                (donationRatings' = donationRatings /\ donationHistory' = donationHistory)]_vars

\* A second submitRating for a rated history has been rejected.
C9_Witness ==
    /\ response.op = "rate" /\ response.pre /\ response.result = "DuplicateRating"
    /\ Len(donationRatings) >= 1

\* The ratings whose handler has returned.
Settled ==
    {i \in 1..Len(donationRatings) :
        ~\E w \in Workers :
            calls[w].pc = "rate_history"
                /\ calls[w].hist = donationRatings[i].donation_history}

\* The supplies a history row reports are the confirmed ones: every category
\* with a received quantity other than those in dropped, nothing else but
\* the other items.
ReportsConfirmed(supply, sc, dropped) ==
    /\ DOMAIN supply \subseteq Categories \cup {"other"}
    /\ \A c \in Categories :
          LET q == Get(sc, ReceivedKey[c], 0) IN
          IF q \in dropped THEN c \notin DOMAIN supply
          ELSE c \in DOMAIN supply /\ supply[c] = q
    /\ IF Get(sc, "other_items", "") = "" THEN "other" \notin DOMAIN supply
       ELSE "other" \in DOMAIN supply /\ supply["other"] = sc["other_items"]

C11_RatingAllOrNothing ==
    [][\A w \in Workers :
          Returns(w, "rate_history") =>
              IF response'.result = "Rated"
              THEN calls[w].data.supplies_confirmed # <<>> =>
                      \E h \in donationHistory' :
                          /\ h.id = calls[w].hist
                          /\ h.supply_needs_fulfilled =
                                 ActualSupplies(calls[w].data.supplies_confirmed)
              ELSE ~\E i \in 1..Len(donationRatings') :
                      donationRatings'[i].donation_history = calls[w].hist]_vars

\* C12: a submitRequest is rejected exactly when its phone number is in its
\* cool-down at the time of the submit (so from nextRequestAllowedAt on it
\* is accepted), and the rejection carries a positive number of remaining
\* seconds.
C12_CooldownRejection ==
    response.op = "create" =>
        /\ response.pre <=> response.result = "Restricted"
        /\ response.result = "Restricted" => response.remaining > 0

\* C13: for every session token at most one request is active.
C13_OneActivePerSession ==
    \A l1, l2 \in anonymousLocations :
        (l1.session_id = l2.session_id /\ l1.is_active /\ l2.is_active) => l1 = l2

\* C14: a submitRequest with session token S creates or updates only
\* requests of session S: the requests of every other session token are the
\* same before and after each of its steps, also when they carry the same
\* phone number.
C14_OnlyOwnSession ==
    [][\A w \in Workers :
          (calls[w].op = "create" /\ calls'[w] # calls[w]) =>
              LET others(table) ==
                      {l \in table : l.session_id # calls[w].data.session_id}
              IN others(anonymousLocations') = others(anonymousLocations)]_vars

\* A session has updated its request while another session holds an active
\* request with the same phone number.
C14_Witness ==
    /\ response.op = "create" /\ response.result = "Updated"
    /\ \E l1, l2 \in anonymousLocations :
          /\ l1.session_id # l2.session_id
          /\ l1.phone = l2.phone
          /\ l1.is_active /\ l2.is_active

\* C15: no step of a submitRequest, create or update, sets a lifecycle
\* field: a request it leaves with donation_received true or with a
\* next_request_allowed_at was stored with those values before the step.
C15_SubmitKeepsLifecycleFields ==
    [][\A w \in Workers :
          (calls[w].op = "create" /\ calls'[w] # calls[w]) =>
              \A m \in anonymousLocations' :
                  (m.donation_received \/ m.next_request_allowed_at # NoTime) =>
                      \E l \in anonymousLocations :
                          /\ l.id = m.id
                          /\ l.donation_received = m.donation_received
                          /\ l.next_request_allowed_at = m.next_request_allowed_at]_vars

\* The effect the claim gives a recordPosition on the samples and on the
\* tracking record, step by step of the handler of worker w.
PositionEffect(w) ==
    /\ IF calls[w].pc = "position_insert" /\ calls'[w].pc = "position_save"
       THEN \E t \in PairRows(donatorsOnTheWay, calls[w].loc, calls[w].user) :
               locationUpdates' =
                   Append(locationUpdates,
                          [donator_on_the_way |-> t.id, geo |-> calls[w].data.geo])
       ELSE locationUpdates' = locationUpdates
    /\ (Returns(w, "position_save") /\ response'.result = "Ack") =>
           /\ \A t \in PairRows(donatorsOnTheWay', calls[w].loc, calls[w].user) :
                 t.last_location_update = now
           /\ \E i \in 1..Len(locationUpdates) :
                 /\ locationUpdates[i].geo = calls[w].data.geo
                 /\ \E t \in PairRows(donatorsOnTheWay', calls[w].loc, calls[w].user) :
                       locationUpdates[i].donator_on_the_way = t.id

\* C16: a recordPosition fails with NotTracking, appending nothing, when its
\* pair has no tracking record with isTracking=true; otherwise it returns
\* Ack, having appended exactly one sample after all earlier ones, none of
\* them changed, and having refreshed lastLocationUpdate.
C16_RecordPosition ==
    /\ [](response.op = "position" =>
            response.result = IF response.pre THEN "Ack" ELSE "NotTracking")
    /\ [][\A w \in Workers :
            ((calls[w].op = "position" \/ calls'[w].op = "position")
                /\ calls'[w] # calls[w]) => PositionEffect(w)]_vars

\* C17: stopTracking answers NotFound only when the pair has no tracking
\* record, and a tracking record that is not tracking starts tracking again
\* only by a markOnTheWay of its pair: no step of another operation, a
\* recordPosition in flight included, turns isTracking back to true.
C17_StoppedUntilNextMark ==
    /\ []((response.op = "stop" /\ response.result = "NotFound") => ~response.pre)
    /\ [][\A t \in donatorsOnTheWay : \A m \in donatorsOnTheWay' :
            (m.id = t.id /\ ~t.is_tracking /\ m.is_tracking) =>
                \E w \in Workers :
                    /\ calls[w].op = "mark" /\ calls'[w] # calls[w]
                    /\ calls[w].loc = t.location /\ calls[w].user = t.donator]_vars

C19_DeactivateIsPermanent ==
    /\ [][(response'.op = "deactivate" /\ response'.result = "Deleted"
              /\ calls' = calls /\ anonymousLocations' # anonymousLocations) =>
            \E r \in anonymousLocations :
                LET gone == {t \in donatorsOnTheWay : t.location = r.id} IN
                /\ anonymousLocations' = anonymousLocations \ {r}
                /\ donatorsOnTheWay' = donatorsOnTheWay \ gone
                /\ locationUpdates' =
                       SelectSeq(locationUpdates,
                                 LAMBDA u : \A t \in gone : u.donator_on_the_way # t.id)
                /\ donationHistory' = donationHistory
                /\ donationRatings' = donationRatings]_vars
    /\ [][\A m \in anonymousLocations' :
            m.id < nextLocationId => \E l \in anonymousLocations : l.id = m.id]_vars

\* C20: every request has a qr_code once the submitRequest that created it
\* is through, no two requests hold the same qr_code, and a qr_code that
\* was assigned never changes.
C20_QrCodeAssignedOnce ==
    /\ [](\A l \in anonymousLocations :
            l.qr_code = NoQr =>
                \E w \in Workers : calls[w].pc = "create_qr" /\ calls[w].loc = l.id)
    /\ [](\A l1, l2 \in anonymousLocations :
            (l1.qr_code # NoQr /\ l1.qr_code = l2.qr_code) => l1 = l2)
    /\ [][\A l \in anonymousLocations : \A m \in anonymousLocations' :
            (m.id = l.id /\ l.qr_code # NoQr) => m.qr_code = l.qr_code]_vars

\* C21: list-active-requests returns exactly the requests that are active and
\* were last seen within the 24 hours before the call, newest first, whatever
\* time has passed and with no other step in between; a request that was
\* fulfilled (a DonationHistory row carries its code) is never returned.
C21_ListActive ==
    [][(response'.op = "list" /\ UNCHANGED <<now, calls, anonymousLocations>>) =>
          LET fresh == {l \in anonymousLocations :
                           /\ l.is_active
                           /\ now - l.last_seen <= FreshnessHours * Hour}
              listed == response'.listed
          IN /\ {listed[i] : i \in DOMAIN listed} = {l.id : l \in fresh}
             /\ Len(listed) = Cardinality(fresh)
             /\ \A i, j \in DOMAIN listed : \A l, m \in fresh :
                    (i < j /\ l.id = listed[i] /\ m.id = listed[j]) =>
                        l.last_seen >= m.last_seen
             /\ \A i \in DOMAIN listed : \A h \in donationHistory :
                    h.qr_code # QrCode(listed[i])]_vars

InRange(g) ==
    /\ 0 - MaxLatitude <= g[1] /\ g[1] <= MaxLatitude
    /\ 0 - MaxLongitude <= g[2] /\ g[2] <= MaxLongitude

\* C22: every stored coordinate, of a request, of a position sample and of a
\* DonationHistory row, has its latitude in [-90, 90] and its longitude in
\* [-180, 180], and a recordPosition that carries a coordinate outside these
\* ranges is rejected: it does not get past its checks to any write.
C22_CoordinatesInRange ==
    /\ [](/\ \A l \in anonymousLocations : InRange(l.geo)
          /\ \A i \in DOMAIN locationUpdates : InRange(locationUpdates[i].geo)
          /\ \A h \in donationHistory : InRange(h.geo))
    /\ [][\A w \in Workers :
            (calls[w].pc = "idle" /\ calls'[w].op = "position") =>
                InRange(calls'[w].data.geo)]_vars

\* The category keys of supply_needs.
SupplyKeys ==
    {"water", "food", "people_count", "medical_supplies", "clothing",
     "shelter_materials", "other"}

\* C23: every stored supply record is well-formed: the supply_needs of a
\* request has only the fixed category keys, with counts that are not
\* negative, and the supplies_confirmed of a rating has only received
\* quantities that are not negative.
C23_SuppliesWellFormed ==
    /\ \A l \in anonymousLocations :
          /\ DOMAIN l.supply_needs \subseteq SupplyKeys
          /\ \A k \in DOMAIN l.supply_needs \ {"other"} : l.supply_needs[k] >= 0
    /\ \A i \in DOMAIN donationRatings :
          \A c \in Categories :
              ReceivedKey[c] \in DOMAIN donationRatings[i].supplies_confirmed =>
                  donationRatings[i].supplies_confirmed[ReceivedKey[c]] >= 0

\* The subscribers of group g: the connections to its consumer that have
\* joined and not yet disconnected.
Subscribers(g) ==
    {ch \in ChannelNames :
        sockets[ch].state \in {"joined", "open"} /\ sockets[ch].path = g}

\* C24: an event published on a channel is delivered to exactly the
\* subscribers joined to that channel at publish time: the members of a
\* group are its subscribers, a publish queues the event for every member of
\* the group at that moment and for nobody else (not a subscriber that has
\* disconnected, not one that connects later, not one of the other
\* channel), and a subscriber is sent only the events queued for it, in
\* order.
C24_DeliveredToSubscribers ==
    /\ [](\A g \in GroupNames : groups[g] = Subscribers(g))
    /\ [][\A ch \in ChannelNames :
            Len(inboxes'[ch]) > Len(inboxes[ch]) =>
                \E g \in GroupNames :
                    LET e == inboxes'[ch][Len(inboxes'[ch])] IN
                    /\ ch \in Subscribers(g)
                    /\ \A other \in ChannelNames :
                          inboxes'[other] =
                              IF other \in Subscribers(g)
                              THEN Append(inboxes[other], e)
                              ELSE inboxes[other]]_vars
    /\ [][\A ch \in ChannelNames :
            sockets'[ch].frames # sockets[ch].frames =>
                /\ sockets[ch].state = "open"
                /\ inboxes[ch] # <<>>
                /\ sockets'[ch].frames = Append(sockets[ch].frames, Head(inboxes[ch]))
                /\ inboxes'[ch] = Tail(inboxes[ch])]_vars

\* A subscriber has been sent an event that a later subscriber of the same
\* channel, connected and idle, never got.
C24_Witness ==
    \E ch, late \in ChannelNames :
        /\ sockets[ch].frames # <<>>
        /\ sockets[late].state = "open"
        /\ sockets[late].path = sockets[ch].path
        /\ sockets[late].frames = <<>>
        /\ inboxes[late] = <<>>

\* The session of the browser that opened the connection: the i-th
\* connection is the one of the i-th session.
Client(ch) == Session(ch[2])

\* C25: the qr_scan_notification of a redeem reaches the requester of the
\* redeemed request only: a connection is never sent the notification of
\* the request of another session.
C25_NotificationToRequester ==
    \A ch \in ChannelNames :
        \A i \in DOMAIN sockets[ch].frames :
            sockets[ch].frames[i].type = "qr_scan_notification" =>
                sockets[ch].frames[i].session_id = Client(ch)

\* The mutation an event reports is in the given tables.
Persisted(e, tracking, samples, history) ==
    IF e.type = "qr_scan_notification"
    THEN \E h \in history : h.qr_code = e.qr_code /\ h.donator = e.donator
    ELSE IF e.type # "donator_tracking_update"
    THEN TRUE
    ELSE \E t \in tracking :
            /\ t.location = e.location /\ t.donator = e.donator
            /\ e.status = "tracking_started" => t.is_tracking /\ ~t.arrived
            /\ e.status = "tracking_stopped" => ~t.is_tracking
            /\ e.status = "position" =>
                   \E i \in DOMAIN samples : samples[i].donator_on_the_way = t.id

\* C27: broadcast follows persistence: when an event is queued for a
\* subscriber, the mutation it reports (the DonationHistory row of a
\* qr_scan_notification, the tracking record of a tracking_started or
\* tracking_stopped, the sample of a position) is already committed.
C27_BroadcastFollowsPersistence ==
    [][\A ch \in ChannelNames :
          Len(inboxes'[ch]) > Len(inboxes[ch]) =>
              Persisted(inboxes'[ch][Len(inboxes'[ch])], donatorsOnTheWay',
                        locationUpdates', donationHistory')]_vars

\* C26: login issues tokens exactly when the given email and password
\* authenticate an existing user: with the password of an active account of
\* that email the response is a success with the tokens of that account,
\* with any other password it is a 401 without tokens, and no login changes
\* a user.
C26_LoginIssuesTokens ==
    /\ [][\A w \in Workers :
            Returns(w, "login") =>
                LET d == calls[w].data
                    match == {r \in users :
                                 /\ r.email = d.email
                                 /\ r.password = Hash(d.password)
                                 /\ r.is_active}
                IN /\ users' = users
                   /\ match # {} =>
                          /\ response'.result = "Tokens"
                          /\ \E r \in match : response'.user = r.id
                   /\ match = {} =>
                          /\ response'.result = "Unauthorized"
                          /\ response'.user = NoUser]_vars
    /\ [][(response'.op = "login" /\ response' # response
              /\ ~ \E w \in Workers : Returns(w, "login")) =>
            (response'.result = "Invalid" /\ response'.user = NoUser
                /\ users' = users)]_vars

\* A person has registered and then logged in.
C26_Witness ==
    /\ response.op = "login"
    /\ response.result = "Tokens"
    /\ response.user = "u3"

\* IsDonator: the user has the role donator.
IsDonator(u) == \E r \in users : r.id = u /\ r.role = "donator"

\* C30: only accounts of role donator act as donators: the donator of every
\* tracking record and of every DonationHistory row and the donated_by_user
\* of every fulfilled request has the role donator, and a markOnTheWay or a
\* redeem of a user of another role gets no further than its checks.
C30_OnlyDonatorsDonate ==
    /\ [](/\ \A t \in donatorsOnTheWay : IsDonator(t.donator)
          /\ \A h \in donationHistory : IsDonator(h.donator)
          /\ \A l \in anonymousLocations :
                l.donation_received => IsDonator(l.donated_by_user))
    /\ [][\A w \in Workers :
            (calls[w].pc = "idle" /\ calls'[w].op \in {"mark", "redeem"}) =>
                IsDonator(calls'[w].user)]_vars

\* C28: a successful redeem(q, D) changes no tracking record but the one of
\* (request, D): the records of the other donators and all position samples
\* stay as they are, no record is created or removed, and a donator who never
\* marked on the way has no record afterwards.
C28_RedeemTouchesOwnTracking ==
    [][\A w \in Workers :
          (Returns(w, "redeem_commit") /\ response'.result = "Redeemed") =>
              LET id == calls[w].loc
                  u == calls[w].user
              IN /\ \A t \in donatorsOnTheWay :
                        (t.location # id \/ t.donator # u) => t \in donatorsOnTheWay'
                 /\ {t.id : t \in donatorsOnTheWay'} = {t.id : t \in donatorsOnTheWay}
                 /\ PairRows(donatorsOnTheWay, id, u) = {} =>
                        PairRows(donatorsOnTheWay', id, u) = {}
                 /\ locationUpdates' = locationUpdates]_vars

\* A donator has redeemed a request that another donator is still on the
\* way to.
C28_Witness ==
    /\ response.op = "redeem" /\ response.result = "Redeemed"
    /\ \E t1, t2 \in donatorsOnTheWay :
          /\ t1.location = t2.location
          /\ t1.donator # t2.donator
          /\ t1.arrived /\ ~t2.arrived

\* C29: whenever a worker is free to serve another operation (a listing, a
\* markOnTheWay, a redeem), every stored request has a qr_code: the insert
\* and the assignment of the code of a creation are never seen apart.
C29_NoRequestWithoutCode ==
    (\E w \in Workers : Free(w)) =>
        \A l \in anonymousLocations : l.qr_code # NoQr

====
